---- MODULE Spec2Model ----
(***************************************************************************)
(* Verification model of the credit-analysis backend: the /api/analyze     *)
(* request handler (backend/server.js), the CreditAnalyzer                 *)
(* (backend/services/creditAnalyzer.js), the DocumentProcessor             *)
(* (backend/services/documentProcessor.js) and the OllamaService           *)
(* (backend/services/ollamaService.js).                                    *)
(*                                                                         *)
(* One behaviour is one analyze request.  Every action is the resumption   *)
(* of the handler from one await: it runs the code up to the next await of *)
(* an external call (file system, PDF renderer, HTTP request, timer), and  *)
(* the outcome of the external call is the action's input.                 *)
(***************************************************************************)
EXTENDS Integers, Sequences, FiniteSets, TLC

\* ------------------------------------------------------------------------
\* Bounds of the model
\* ------------------------------------------------------------------------
MaxFiles == 2
MaxPages == 2
MaxTotalPages == 3
MaxChunks == 2
AttemptsCap == 5
MaxFbDocs == 3

\* ------------------------------------------------------------------------
\* Program constants
\* ------------------------------------------------------------------------
maxRetries == 3

Undefined == "undefined"

PdfMime == "application/pdf"
MimeTypes == {PdfMime, "text/csv"}
DocumentTypes == {"legal", "profit-loss", "balance-sheet", "bank-statement", "other"}
RequestTypes == {"profit-loss", "other"}
FinancialTypes == {"profit-loss", "balance-sheet", "bank-statement"}

\* The ways one attempt of analyzeImage fails: the image file is missing
\* (no request is sent), or the request fails (non-OK status, empty
\* response, network error).
FailKinds == {"Image file not found", "Ollama API error"}

\* ------------------------------------------------------------------------
\* Progress percentages are rationals <<numerator, denominator>>
\* ------------------------------------------------------------------------
Pct(k) == <<k, 1>>
Leq(a, b) == a[1] * b[2] <= b[1] * a[2]
Less(a, b) == a[1] * b[2] < b[1] * a[2]

\* progressBase + 5, progressBase = (fileIndex - 1) / files.length * 60
FileStartProgress(i, n) == <<(i - 1) * 60 + 5 * n, n>>
\* progressBase + 60 / files.length
FileEndProgress(i, n) == <<(i - 1) * 60 + 60, n>>
\* 80 + (docIndex / processedDocuments.length) * 15
DocProgress(j, m) == <<80 * m + 15 * j, m>>

IsInteger(x) == x[1] % x[2] = 0

\* ------------------------------------------------------------------------
\* Reports and events.  A message is a sequence of message parts, so that
\* wrapping an error ("Failed to ...: " + error.message) prepends a part;
\* a score is a rational, so that a missing Math.round is visible.
\* ------------------------------------------------------------------------
NoError == <<>>

NoReport ==
  [source |-> "none", score |-> <<0, 1>>, rating |-> Undefined, summary |-> Undefined,
   documentAnalysis |-> <<>>, totalDocuments |-> 0, documentTypes |-> <<>>]

ProgressEvent(step, progress) ==
  [step |-> step, progress |-> progress, error |-> NoError, result |-> NoReport]

ResultEvent(analysis) ==
  [step |-> "result", progress |-> Pct(100), error |-> NoError, result |-> analysis]

ErrorEvent(message) ==
  [step |-> "error", progress |-> Pct(0), error |-> message, result |-> NoReport]

IsTerminal(e) == e.step \in {"result", "error"}

\* ------------------------------------------------------------------------
\* Request bodies: a list of uploaded-file references.  `pages` is not a
\* field of the request: it is the page count of the uploaded PDF on disk
\* (0 for a file that is not a PDF), which the renderer finds.
\* ------------------------------------------------------------------------
FileRecord(i, mt, ty, pages) ==
  [id |-> i, originalName |-> <<"original", i>>, filename |-> i, mimetype |-> mt,
   type |-> ty, pages |-> pages]

UploadKinds ==
  [mimetype : {PdfMime}, type : RequestTypes, pages : 1..MaxPages]
  \cup [mimetype : MimeTypes \ {PdfMime}, type : RequestTypes, pages : {0}]

RECURSIVE SumPages(_)
SumPages(f) == IF f = <<>> THEN 0 ELSE f[1].pages + SumPages(Tail(f))

FileLists ==
  UNION { { f \in [1..n -> UploadKinds] : SumPages(f) <= MaxTotalPages } : n \in 0..MaxFiles }

MkFiles(f) == [i \in DOMAIN f |-> FileRecord(i, f[i].mimetype, f[i].type, f[i].pages)]

\* ------------------------------------------------------------------------
\* DocumentProcessor.processDocument: the ProcessedDocument of a file; a
\* PDF is rendered to one image per page, any other file gets a descriptor
\* ------------------------------------------------------------------------
ImagePath(id, p) == <<id, p>>

ProcessedDocument(file) ==
  [id |-> file.id, originalName |-> file.originalName, type |-> file.type,
   mimetype |-> file.mimetype,
   images |-> IF file.mimetype = PdfMime
              THEN [p \in 1..file.pages |-> ImagePath(file.id, p)] ELSE <<>>,
   text |-> IF file.mimetype = PdfMime THEN "" ELSE "File description",
   pageCount |-> IF file.mimetype = PdfMime THEN file.pages ELSE 0]

\* processedDocuments.push(processed) happens only when processDocument
\* returned; a failed file pushes nothing
PushProcessedAlways(processedDocuments, file, ok) ==
  Append(processedDocuments, ProcessedDocument(file))

PushProcessed(processedDocuments, file, ok) ==
  IF ok THEN Append(processedDocuments, ProcessedDocument(file))
  ELSE processedDocuments

NoDocumentsProcessedStrict(processedDocuments, files) ==
  Len(processedDocuments) < Len(files)

\* if (processedDocuments.length === 0) throw ...
NoDocumentsProcessed(processedDocuments, files) ==
  Len(processedDocuments) = 0

\* ------------------------------------------------------------------------
\* DocumentProcessor.handleEncryptedPDF
\* ------------------------------------------------------------------------
commonPasswordsReordered == <<"", "password", "admin", "123456", "user">>

\* const commonPasswords = ['', 'password', '123456', 'admin', 'user']
commonPasswords == <<"", "password", "123456", "admin", "user">>

\* for (const password of commonPasswords), after the passwords in tried
NextPassword(tried) == commonPasswords[Len(tried) + 1]

\* ------------------------------------------------------------------------
\* OllamaService.analyzeImage / analyzeMultipleImages
\* ------------------------------------------------------------------------
ShouldRetryOffByOne(retryCount) == retryCount <= maxRetries

\* if (retryCount < this.maxRetries)
ShouldRetry(retryCount) == retryCount < maxRetries

NextRetryCountStuck(retryCount) == retryCount

\* this.analyzeImage(imagePath, prompt, retryCount + 1)
NextRetryCount(retryCount) == retryCount + 1

RecursiveCallInsideTryYes == TRUE

\* The recursive call stands in the catch clause, not in the try block: the
\* rejection of the inner call is the rejection of the outer one.
RecursiveCallInsideTry == FALSE

ExhaustedErrorUnwrapped(lastError) == lastError

\* throw new Error(`Failed to analyze image after ... attempts: ${error.message}`)
ExhaustedError(lastError) == <<"Failed to analyze image after attempts">> \o lastError

SuccessRecordZeroBased(i, imagePath, result) ==
  [page |-> i, imagePath |-> imagePath, analysis |-> result, error |-> NoError, success |-> TRUE]

\* results.push({ page: i + 1, imagePath, analysis: result, success: true })
SuccessRecord(i, imagePath, result) ==
  [page |-> i + 1, imagePath |-> imagePath, analysis |-> result, error |-> NoError, success |-> TRUE]

\* results.push({ page: i + 1, imagePath, error: error.message, success: false })
FailureRecord(i, imagePath, message) ==
  [page |-> i + 1, imagePath |-> imagePath, analysis |-> Undefined, error |-> message, success |-> FALSE]

\* ------------------------------------------------------------------------
\* CreditAnalyzer.combinePageAnalyses / analyzeDocument.  A narrative is a
\* sequence of segments [label, text]; label 0 is an unlabelled segment.
\* ------------------------------------------------------------------------
FailedToExtract == <<[label |-> 0, text |-> "Failed to extract information from document pages"]>>

combinePageAnalysesRenumbered(pageAnalyses) ==
  LET validAnalyses == SelectSeq(pageAnalyses, LAMBDA a : a.error = NoError)
  IN IF Len(validAnalyses) = 0 THEN FailedToExtract
     ELSE [k \in 1..Len(validAnalyses) |->
             [label |-> k, text |-> validAnalyses[k].analysis]]

combinePageAnalyses(pageAnalyses) ==
  LET validAnalyses == SelectSeq(pageAnalyses, LAMBDA a : a.error = NoError)
  IN IF Len(validAnalyses) = 0 THEN FailedToExtract
     ELSE [k \in 1..Len(validAnalyses) |->
             [label |-> validAnalyses[k].page, text |-> validAnalyses[k].analysis]]

ImageDocumentAnalysisSuccessCount(document, imageAnalyses) ==
  [type |-> document.type, hasPageCount |-> TRUE,
   pageCount |-> Len(SelectSeq(imageAnalyses, LAMBDA a : a.success)),
   extractedInfo |-> combinePageAnalyses(imageAnalyses),
   pageAnalyses |-> imageAnalyses, textAnalysis |-> FALSE]

\* analyzeDocument, image branch, once analyzeMultipleImages returned
ImageDocumentAnalysis(document, imageAnalyses) ==
  [type |-> document.type, hasPageCount |-> TRUE, pageCount |-> Len(document.images),
   extractedInfo |-> combinePageAnalyses(imageAnalyses),
   pageAnalyses |-> imageAnalyses, textAnalysis |-> FALSE]

TextDocumentAnalysisNoContent(document) ==
  [type |-> document.type, hasPageCount |-> FALSE, pageCount |-> 0,
   extractedInfo |-> <<[label |-> 0, text |-> "No content extracted"]>>,
   pageAnalyses |-> <<>>, textAnalysis |-> TRUE]

\* analyzeDocument, text branch
TextDocumentAnalysis(document) ==
  [type |-> document.type, hasPageCount |-> FALSE, pageCount |-> 0,
   extractedInfo |-> <<[label |-> 0,
                        text |-> IF document.text = "" THEN "No content extracted" ELSE document.text]>>,
   pageAnalyses |-> <<>>, textAnalysis |-> TRUE]

ExtractedEntryFailing(documentAnalysis, doc) ==
  [documentId |-> doc.id, documentName |-> doc.originalName, documentType |-> doc.type,
   error |-> IF /\ documentAnalysis.pageAnalyses # <<>>
                /\ \A p \in DOMAIN documentAnalysis.pageAnalyses :
                     ~documentAnalysis.pageAnalyses[p].success
             THEN <<"Failed to analyze document">> ELSE NoError,
   type |-> documentAnalysis.type, hasPageCount |-> documentAnalysis.hasPageCount,
   pageCount |-> documentAnalysis.pageCount, extractedInfo |-> documentAnalysis.extractedInfo,
   pageAnalyses |-> documentAnalysis.pageAnalyses, textAnalysis |-> documentAnalysis.textAnalysis]

\* extractedData.push({ ...documentAnalysis, documentId, documentName, documentType })
ExtractedEntry(documentAnalysis, doc) ==
  [documentId |-> doc.id, documentName |-> doc.originalName, documentType |-> doc.type,
   error |-> NoError,
   type |-> documentAnalysis.type, hasPageCount |-> documentAnalysis.hasPageCount,
   pageCount |-> documentAnalysis.pageCount, extractedInfo |-> documentAnalysis.extractedInfo,
   pageAnalyses |-> documentAnalysis.pageAnalyses, textAnalysis |-> documentAnalysis.textAnalysis]

\* ------------------------------------------------------------------------
\* OllamaService.generateFallbackAnalysis
\* ------------------------------------------------------------------------
Add(a, b) == <<a[1] * b[2] + b[1] * a[2], a[2] * b[2]>>
MathMax(a, b) == IF Less(a, b) THEN b ELSE a
MathMin(a, b) == IF Less(b, a) THEN b ELSE a

MathRoundMissing(x) == x

\* Math.round: the nearest integer, halves upwards
MathRound(x) == <<(2 * x[1] + x[2]) \div (2 * x[2]), 1>>

BaseScoreFlat(hasFinancialDocs) == 50

\* hasFinancialDocs ? 70 : 50
BaseScore(hasFinancialDocs) == IF hasFinancialDocs THEN 70 ELSE 50

\* (successfulAnalyses / documentCount) * 20
AnalysisBonus(successfulAnalyses, documentCount) == <<successfulAnalyses * 20, documentCount>>

\* Math.min(100, Math.max(30, baseScore + analysisBonus))
FallbackRawScore(successfulAnalyses, documentCount, hasFinancialDocs) ==
  MathMin(Pct(100), MathMax(Pct(30),
    Add(Pct(BaseScore(hasFinancialDocs)), AnalysisBonus(successfulAnalyses, documentCount))))

\* score >= 80 ? 'Excellent' : score >= 70 ? 'Good' : score >= 60 ? 'Fair' : 'Poor'
RatingOf(score) ==
  IF Leq(Pct(80), score) THEN "Excellent"
  ELSE IF Leq(Pct(70), score) THEN "Good"
  ELSE IF Leq(Pct(60), score) THEN "Fair"
  ELSE "Poor"

Times(a, b) == <<a[1] * b[1], a[2] * b[2]>>

\* strengths: [...]
FallbackStrengths(hasFinancialDocs) ==
  <<"Complete documentation provided for review",
    "Organized approach to financial record keeping",
    "Transparent submission of required documents",
    IF hasFinancialDocs THEN "Comprehensive financial statements included"
    ELSE "Willingness to provide documentation">>

\* riskFactors: [...]
FallbackRiskFactors(hasFinancialDocs) ==
  <<"Limited AI analysis due to technical constraints",
    "Market volatility and economic uncertainty factors",
    IF ~hasFinancialDocs THEN "Missing key financial statements"
    ELSE "Need for more detailed financial trend analysis">>

\* recommendations: [...]
FallbackRecommendations(hasFinancialDocs) ==
  <<"Maintain consistent and detailed financial reporting",
    "Implement regular cash flow monitoring and forecasting",
    "Diversify revenue streams to reduce business risk",
    "Build emergency reserves covering 3-6 months of expenses",
    IF hasFinancialDocs THEN "Continue providing comprehensive financial documentation"
    ELSE "Submit profit & loss statements and balance sheets for better assessment">>

\* detailedAnalysis: { financialHealth: Math.round(score * 0.9), ... } with
\* the score before rounding
SubScores(score) ==
  [financialHealth |-> MathRound(Times(score, <<9, 10>>)),
   cashFlow |-> MathRound(Times(score, <<8, 10>>)),
   debtRatio |-> MathRound(Times(score, <<85, 100>>)),
   profitability |-> MathRound(Times(score, <<75, 100>>))]

generateFallbackAnalysis(extractedData) ==
  LET documentCount == Len(extractedData)
      successfulAnalyses ==
        Cardinality({i \in DOMAIN extractedData : extractedData[i].error = NoError})
      hasFinancialDocs ==
        \E i \in DOMAIN extractedData : extractedData[i].documentType \in FinancialTypes
      score == FallbackRawScore(successfulAnalyses, documentCount, hasFinancialDocs)
  IN [source |-> "fallback", score |-> MathRound(score), rating |-> RatingOf(score),
      summary |-> "Based on analysis of documents",
      strengths |-> FallbackStrengths(hasFinancialDocs),
      riskFactors |-> FallbackRiskFactors(hasFinancialDocs),
      recommendations |-> FallbackRecommendations(hasFinancialDocs),
      detailedAnalysis |-> SubScores(score)]

\* ------------------------------------------------------------------------
\* OllamaService.generateCreditAnalysis: the answers of the aggregate
\* generation request and what the method returns for each
\* ------------------------------------------------------------------------
NoObject == [hasScore |-> FALSE, score |-> <<0, 1>>, rating |-> Undefined, summary |-> Undefined]

JsonObjects ==
  { [hasScore |-> TRUE, score |-> <<75, 1>>, rating |-> "Good", summary |-> "Brief summary"],
    [hasScore |-> TRUE, score |-> <<75, 1>>, rating |-> Undefined, summary |-> "Brief summary"],
    [hasScore |-> TRUE, score |-> <<0, 1>>, rating |-> "Poor", summary |-> "Brief summary"],
    [hasScore |-> TRUE, score |-> <<150, 1>>, rating |-> "Good", summary |-> "Brief summary"] }

AggregateResponses ==
  { [kind |-> "httpError", object |-> NoObject], [kind |-> "nonJSON", object |-> NoObject] }
  \cup { [kind |-> "json", object |-> o] : o \in JsonObjects }

Truthy(s) == s \notin {Undefined, ""}

IsValidStructureNoRating(o) ==
  /\ o.hasScore /\ o.score[1] # 0
  /\ Truthy(o.summary)

\* !(!analysisResult.score || !analysisResult.rating || !analysisResult.summary)
IsValidStructure(o) ==
  /\ o.hasScore /\ o.score[1] # 0
  /\ Truthy(o.rating)
  /\ Truthy(o.summary)

generateCreditAnalysis(extractedData, response) ==
  IF response.kind = "json" /\ IsValidStructure(response.object)
  THEN [source |-> "model", score |-> response.object.score,
        rating |-> response.object.rating, summary |-> response.object.summary]
  ELSE generateFallbackAnalysis(extractedData)

\* analyzeDocuments: { ...creditAnalysis, documentAnalysis, metadata }
MergedReport(creditAnalysis, extractedData, processedDocuments) ==
  [source |-> creditAnalysis.source, score |-> creditAnalysis.score,
   rating |-> creditAnalysis.rating, summary |-> creditAnalysis.summary,
   documentAnalysis |-> extractedData,
   totalDocuments |-> Len(processedDocuments),
   documentTypes |-> [i \in DOMAIN processedDocuments |-> processedDocuments[i].type]]

FinishEventsSwapped(analysis) ==
  <<ResultEvent(analysis), ProgressEvent("complete", Pct(100))>>

\* sendProgress('complete', 100, ...); res.write(result event)
FinishEvents(analysis) ==
  <<ProgressEvent("complete", Pct(100)), ResultEvent(analysis)>>

NeedsPullNever(modelAvailable) == FALSE

\* analyzeDocuments: if (!modelAvailable) { ...; await pullModel() }
NeedsPull(modelAvailable) == ~modelAvailable

\* pullModel: the pieces that chunk.split('\n') yields.  A piece is a
\* whole line of the pull stream (a status object or an error object) or
\* one of the two parts of an error line that the transport cut in two;
\* a part of a JSON object is not JSON.
PullPieces == {"status", "error", "error-head", "error-tail"}

\* the chunks followed inside a whole request: one line each, or the first
\* part of a line
RequestChunks == { <<"status">>, <<"error">>, <<"error-head">> }

\* the chunks reader.read() can return: one or two pieces
PullChunks == { <<p>> : p \in PullPieces } \cup { <<p, q>> : p, q \in PullPieces }

ParsesAsObject(piece) == piece \in {"status", "error"}

\* pullModel, the loop over the lines of one chunk: JSON.parse(line)
\* succeeded and data.error is set; a line that does not parse is ignored
ErrorLineIn(chunk) ==
  \E i \in DOMAIN chunk : ParsesAsObject(chunk[i]) /\ chunk[i] = "error"

CheckConnectionSwallowed(ok) == FALSE

\* checkConnection throws unless the version request succeeds
CheckConnectionThrows(ok) == ~ok

\* ------------------------------------------------------------------------
\* The aggregate response as text: data.response is a sequence of tokens,
\* a token being an opening fence with language tag, a bare fence, a JSON
\* object or any other text.  Whitespace is left out: trim(), \s* and
\* JSON.parse all skip it.  "fence-json" is ```json and "fence" is ```.
\* ------------------------------------------------------------------------
MaxTokens == 3

AggObjects ==
  JsonObjects \cup
  { [hasScore |-> FALSE, score |-> <<0, 1>>, rating |-> "Good", summary |-> "Brief summary"],
    [hasScore |-> TRUE, score |-> <<75, 1>>, rating |-> "Good", summary |-> ""] }

Token(tok, o) == [tok |-> tok, object |-> o]

RawTokens ==
  { Token(t, NoObject) : t \in {"fence-json", "fence", "text"} }
  \cup { Token("object", o) : o \in AggObjects }

RawTexts == UNION { [1..n -> RawTokens] : n \in 0..MaxTokens }

NoRaw == [ok |-> FALSE, text |-> <<>>]

RawResponses == [ok : BOOLEAN, text : RawTexts]

StartsWith(text, toks) == Len(text) > 0 /\ text[1].tok \in toks

\* .replace(/```\s*$/, '')
DropTrailingFence(text) ==
  IF Len(text) > 0 /\ text[Len(text)].tok = "fence"
  THEN SubSeq(text, 1, Len(text) - 1)
  ELSE text

\* .replace(/```\s*/, '') on a text that starts with ```: of ```json the
\* word json stays
DropLeadingFence(text) ==
  IF text[1].tok = "fence-json"
  THEN <<Token("text", NoObject)>> \o Tail(text)
  ELSE Tail(text)

StripFences(text) ==
  LET afterJson == IF StartsWith(text, {"fence-json"})
                   THEN DropTrailingFence(Tail(text))
                   ELSE text
  IN IF StartsWith(afterJson, {"fence", "fence-json"})
     THEN DropTrailingFence(DropLeadingFence(afterJson))
     ELSE afterJson

\* JSON.parse(cleanResponse) succeeds on exactly one JSON object
ParsesAsJSON(clean) == Len(clean) = 1 /\ clean[1].tok = "object"

ParseResponse(raw) ==
  IF ~raw.ok THEN [kind |-> "httpError", object |-> NoObject]
  ELSE IF ParsesAsJSON(StripFences(raw.text))
       THEN [kind |-> "json", object |-> StripFences(raw.text)[1].object]
       ELSE [kind |-> "nonJSON", object |-> NoObject]

\* ------------------------------------------------------------------------
\* State
\* ------------------------------------------------------------------------
VARIABLES
  files,              \* req.body.files
  pc,                 \* the await the request is suspended at
  httpStatus,         \* 0 until the response head is written
  streamEnded,        \* res.end() was called
  events,             \* the events written to the stream, in order
  fileIndex,          \* server.js: fileIndex
  outcomes,           \* per file handled so far: "missing", "failed", "processed"
  processedDocuments, \* server.js: processedDocuments
  connection,         \* outcome of the initial checkConnection
  modelCheck,         \* outcome of isModelAvailable in analyzeDocuments
  install,            \* outcome of pullModel
  chunksRead,         \* chunks of the pull stream read so far
  docIndex,           \* creditAnalyzer.js: docIndex
  extractedData,      \* creditAnalyzer.js: extractedData
  pageIdx,            \* analyzeMultipleImages: i
  results,            \* analyzeMultipleImages: results
  retryCount,         \* analyzeImage: retryCount of the running attempt
  attempts,           \* attempts made by the current analyzeImage call
  lastError,          \* analyzeImage: error caught by the catch clause of the running call
  settled,            \* how the current analyzeImage call settled
  called,             \* the operations invoked for this request
  cleanupScheduled,   \* the setTimeout of the cleanup is pending
  removed,            \* the paths the cleanup tried to remove
  fbInput,            \* argument of a direct generateFallbackAnalysis call
  fbResult,           \* and what it returned
  aggResponse,        \* response to a direct generateCreditAnalysis call
  callTrace,          \* a direct analyzeImage call: its attempts and waits
  detailed,           \* the request is followed in detail: failed attempts
                      \* and requests are counted, removals may fail
  attemptFailed,      \* some analyzeImage attempt of this request threw
  pageRequests,       \* per file id: page-level /api/generate requests sent
  aggregateRequests,  \* aggregate /api/generate requests sent
  pdf,                \* the file given to a direct processPDF call
  probes,             \* handleEncryptedPDF: the passwords tried, in order
  processedPdfPath,   \* processPDF: processedPdfPath
  pdfOutcome,         \* what processPDF did: "none", "returned" or "threw"
  client,             \* a call of ApiService.analyzeWithStreaming in the browser
  other               \* another analyze request that names the same files and
                      \* ended first: the removals its cleanup still has to
                      \* make, and the paths it removed that nobody made again

requestVars == <<files, httpStatus, streamEnded, events>>
fileVars == <<fileIndex, outcomes, processedDocuments>>
gatewayVars == <<connection, modelCheck, install, chunksRead>>
docVars == <<docIndex, extractedData>>
imageVars == <<pageIdx, results, retryCount, attempts, lastError, settled>>
cleanupVars == <<cleanupScheduled, removed>>
fbVars == <<fbInput, fbResult, aggResponse, callTrace>>
countVars == <<detailed, attemptFailed, pageRequests, aggregateRequests>>
pdfVars == <<pdf, probes, processedPdfPath, pdfOutcome>>
overlapVars == <<other>>
clientVars == <<client>>

vars == <<files, pc, httpStatus, streamEnded, events, fileIndex, outcomes,
          processedDocuments, connection, modelCheck, install, chunksRead,
          docIndex, extractedData, pageIdx, results, retryCount, attempts,
          lastError, settled, called, cleanupScheduled, removed, fbInput, fbResult,
          aggResponse, callTrace, detailed, attemptFailed, pageRequests, aggregateRequests,
          pdf, probes, processedPdfPath, pdfOutcome, other, client>>

NoSettled == [ok |-> FALSE, analysis |-> Undefined, error |-> NoError]

PipelineInit ==
  /\ httpStatus = 0
  /\ streamEnded = FALSE
  /\ events = <<>>
  /\ fileIndex = 0
  /\ outcomes = <<>>
  /\ processedDocuments = <<>>
  /\ connection = "pending"
  /\ modelCheck = "pending"
  /\ install = "none"
  /\ chunksRead = 0
  /\ docIndex = 0
  /\ extractedData = <<>>
  /\ pageIdx = 0
  /\ results = <<>>
  /\ retryCount = 0
  /\ attempts = 0
  /\ lastError = NoError
  /\ settled = NoSettled
  /\ called = {}
  /\ cleanupScheduled = FALSE
  /\ removed = {}

\* processPDF is not called on its own
NoPdf == [id |-> 0, kind |-> "none", password |-> Undefined, pages |-> 0]

OriginalPath == [copy |-> FALSE, password |-> Undefined]

NoPdfCall ==
  /\ pdf = NoPdf
  /\ probes = <<>>
  /\ processedPdfPath = OriginalPath
  /\ pdfOutcome = "none"

\* analyzeImage is not followed on its own
NoTrace == [on |-> FALSE, steps |-> <<>>]

Traced(trace, step) ==
  IF trace.on THEN [trace EXCEPT !.steps = Append(@, step)] ELSE trace

\* nothing counted yet
NoCounts ==
  /\ attemptFailed = FALSE
  /\ pageRequests = [i \in DOMAIN files |-> 0]
  /\ aggregateRequests = 0

\* no call of the client's stream reader is followed
NoClient == [phase |-> "idle"]

\* no other request shares the files of this one
NoOther == [cleanup |-> <<>>, gone |-> {}]

\* server.js 187: path.join(uploadsDir, file.filename)
UploadPath(file) == <<"upload", file.filename>>

\* documentProcessor.js 58: path.join(this.tempDir, documentId)
TempDirPath(documentId) == <<"tempdir", documentId>>

\* what processDocument leaves on disk for a document: its directory and
\* the page images in it
RenderedPaths(document) ==
  { <<"image", document.images[p]>> : p \in DOMAIN document.images }
  \cup (IF document.images = <<>> THEN {} ELSE {TempDirPath(document.id)})

\* processDocument returned: the paths it wrote exist again
Rendered(o, file, ok) ==
  IF ok THEN [o EXCEPT !.gone = @ \ RenderedPaths(ProcessedDocument(file))] ELSE o

OnDiskIsolated(path) == TRUE

\* fs.pathExists(path), fs.readFile(path): the path was not removed by the
\* cleanup of the other request
OnDisk(path) == path \notin other.gone

Counted(counts, id, sent) ==
  IF detailed /\ sent THEN [counts EXCEPT ![id] = @ + 1] ELSE counts

Init ==
  /\ files \in { MkFiles(f) : f \in FileLists }
  /\ pc = "received"
  /\ PipelineInit
  /\ fbInput = <<>>
  /\ fbResult = NoReport
  /\ aggResponse = NoRaw
  /\ callTrace = NoTrace
  /\ detailed = FALSE
  /\ other = NoOther
  /\ client = NoClient
  /\ NoCounts
  /\ NoPdfCall

\* ------------------------------------------------------------------------
\* server.js, catch (error) of the analysis: the error event and res.end()
\* ------------------------------------------------------------------------
ErrorTerminal(evs, message) ==
  /\ events' = Append(evs, ErrorEvent(message))
  /\ streamEnded' = TRUE
  /\ pc' = "ended"

\* analyzeDocuments, catch (error): the error is wrapped before it reaches
\* the catch of server.js
AnalysisError(message) == <<"Failed to complete credit analysis">> \o message

\* ------------------------------------------------------------------------
\* server.js, the processing loop from the end of iteration i: the next
\* iteration up to its await of fs.pathExists, or the code after the loop
\* up to the await of isModelAvailable in analyzeDocuments
\* ------------------------------------------------------------------------
FileLoopContinueEager(evs, pd, i) ==
  IF i < Len(files) /\ pd = <<>>
  THEN /\ fileIndex' = i + 1
       /\ events' = Append(evs, ProgressEvent("processing", FileStartProgress(i + 1, Len(files))))
       /\ pc' = "pathExists"
       /\ UNCHANGED <<streamEnded, called>>
  ELSE /\ fileIndex' = i
       /\ IF NoDocumentsProcessed(pd, files)
          THEN /\ ErrorTerminal(evs, <<"No documents could be processed successfully">>)
               /\ UNCHANGED called
          ELSE /\ events' = Append(evs, ProgressEvent("analysis", Pct(70)))
               /\ pc' = "isModelAvailable"
               /\ called' = called \cup {"analyzeDocuments", "isModelAvailable"}
               /\ UNCHANGED streamEnded

FileLoopContinue(evs, pd, i) ==
  IF i < Len(files)
  THEN /\ fileIndex' = i + 1
       /\ events' = Append(evs, ProgressEvent("processing", FileStartProgress(i + 1, Len(files))))
       /\ pc' = "pathExists"
       /\ UNCHANGED <<streamEnded, called>>
  ELSE /\ fileIndex' = i
       /\ IF NoDocumentsProcessed(pd, files)
          THEN /\ ErrorTerminal(evs, <<"No documents could be processed successfully">>)
               /\ UNCHANGED called
          ELSE /\ events' = Append(evs, ProgressEvent("analysis", Pct(70)))
               /\ pc' = "isModelAvailable"
               /\ called' = called \cup {"analyzeDocuments", "isModelAvailable"}
               /\ UNCHANGED streamEnded

\* ------------------------------------------------------------------------
\* creditAnalyzer.js, the extraction loop from document j: text-only
\* documents are analysed without an await; the loop suspends at the first
\* analyzeImage of a document with images, or leaves for
\* generateCreditAnalysis
\* ------------------------------------------------------------------------
RECURSIVE DocLoop(_, _, _)
DocLoop(j, evs, ed) ==
  LET m == Len(processedDocuments)
  IN IF j > m
     THEN [pc |-> "generate", docIndex |-> m, extractedData |-> ed,
           events |-> Append(evs, ProgressEvent("analysis", Pct(95)))]
     ELSE LET doc == processedDocuments[j]
              evs2 == Append(evs, ProgressEvent("analysis", DocProgress(j, m)))
          IN IF Len(doc.images) > 0
             THEN [pc |-> "attempt", docIndex |-> j, extractedData |-> ed, events |-> evs2]
             ELSE DocLoop(j + 1, evs2, Append(ed, ExtractedEntry(TextDocumentAnalysis(doc), doc)))

\* The state after the loop ran from document j
DocLoopContinue(j, evs, ed) ==
  LET r == DocLoop(j, evs, ed)
  IN /\ pc' = r.pc
     /\ docIndex' = r.docIndex
     /\ extractedData' = r.extractedData
     /\ events' = r.events
     /\ pageIdx' = 0
     /\ results' = <<>>
     /\ retryCount' = 0
     /\ attempts' = 0
     /\ lastError' = NoError
     /\ settled' = NoSettled
     /\ called' = called \cup (IF r.pc = "generate" THEN {"generateCreditAnalysis"}
                               ELSE {"analyzeMultipleImages"})

\* progressCallback('analysis', 80, ...) and the loop from the first document
StartExtraction(evs) ==
  DocLoopContinue(1, Append(evs, ProgressEvent("analysis", Pct(80))), <<>>)

\* ------------------------------------------------------------------------
\* Actions of one analyze request
\* ------------------------------------------------------------------------

\* server.js 147-173: validation, response head, the first progress event
OpenStream ==
  /\ pc = "received"
  /\ IF Len(files) = 0
     THEN /\ httpStatus' = 400
          /\ pc' = "rejected"
          /\ UNCHANGED events
     ELSE /\ httpStatus' = 200
          /\ events' = <<ProgressEvent("initialization", Pct(5))>>
          /\ pc' = "checkConnection"
  /\ UNCHANGED <<files, streamEnded, fileVars, gatewayVars, docVars, imageVars,
                 called, cleanupVars, fbVars, pdfVars, countVars, overlapVars, clientVars>>

\* server.js 173-189: checkConnection returned or threw
CheckConnection(ok) ==
  /\ pc = "checkConnection"
  /\ connection' = IF ok THEN "ok" ELSE "failed"
  /\ IF CheckConnectionThrows(ok)
     THEN /\ ErrorTerminal(events, <<"Cannot connect to Ollama">>)
          /\ UNCHANGED <<fileIndex, called>>
     ELSE FileLoopContinue(Append(events, ProgressEvent("processing", Pct(10))),
                           processedDocuments, 0)
  /\ UNCHANGED <<files, httpStatus, outcomes, processedDocuments, modelCheck, install,
                 chunksRead, docVars, imageVars, cleanupVars, fbVars, pdfVars, countVars, overlapVars, clientVars>>

\* server.js 189-196: fs.pathExists(filePath) returned
PathExists(exists) ==
  /\ pc = "pathExists"
  /\ IF exists
     THEN /\ pc' = "processDocument"
          /\ called' = called \cup {"processDocument"}
          /\ UNCHANGED <<events, streamEnded, fileIndex, outcomes>>
     ELSE /\ outcomes' = Append(outcomes, "missing")
          /\ FileLoopContinue(
               Append(events, ProgressEvent("processing", FileEndProgress(fileIndex, Len(files)))),
               processedDocuments, fileIndex)
  /\ UNCHANGED <<files, httpStatus, processedDocuments, gatewayVars, docVars, imageVars,
                 cleanupVars, fbVars, pdfVars, countVars, overlapVars, clientVars>>

\* server.js 196-213: processDocument returned the document or threw
ProcessDocument(ok) ==
  /\ pc = "processDocument"
  /\ LET pd == PushProcessed(processedDocuments, files[fileIndex], ok)
     IN /\ processedDocuments' = pd
        /\ outcomes' = Append(outcomes, IF ok THEN "processed" ELSE "failed")
        /\ FileLoopContinue(
             Append(events, ProgressEvent("processing", FileEndProgress(fileIndex, Len(files)))),
             pd, fileIndex)
  /\ other' = Rendered(other, files[fileIndex], ok)
  /\ UNCHANGED <<files, httpStatus, gatewayVars, docVars, imageVars, cleanupVars, fbVars, pdfVars, countVars, clientVars>>

\* creditAnalyzer.js 9-28: isModelAvailable returned (false also when the
\* check itself failed)
IsModelAvailable(available) ==
  /\ pc = "isModelAvailable"
  /\ modelCheck' = IF available THEN "available" ELSE "unavailable"
  /\ IF ~NeedsPull(available)
     THEN StartExtraction(events)
     ELSE /\ events' = Append(events, ProgressEvent("analysis", Pct(75)))
          /\ pc' = "pullModel"
          /\ called' = called \cup {"pullModel"}
          /\ UNCHANGED <<docVars, imageVars>>
  /\ UNCHANGED <<files, httpStatus, streamEnded, fileVars, connection, install,
                 chunksRead, cleanupVars, fbVars, pdfVars, countVars, overlapVars, clientVars>>

\* ollamaService.js 62-73: the pull request was answered
PullRequest(ok) ==
  /\ pc = "pullModel"
  /\ IF ok
     THEN /\ pc' = "pullRead"
          /\ UNCHANGED <<events, streamEnded, install>>
     ELSE /\ install' = "failed"
          /\ ErrorTerminal(events, AnalysisError(<<"Failed to pull model", "Failed to pull model: status">>))
  /\ UNCHANGED <<files, httpStatus, fileVars, connection, modelCheck, chunksRead,
                 docVars, imageVars, called, cleanupVars, fbVars, pdfVars, countVars, overlapVars, clientVars>>

\* ollamaService.js 77-101: reader.read() returned a chunk; its lines are
\* parsed one by one and the first error line throws
PullRead(chunk) ==
  /\ pc = "pullRead"
  /\ chunksRead < MaxChunks
  /\ callTrace' = Traced(callTrace, chunk)
  /\ IF ErrorLineIn(chunk)
     THEN /\ install' = "failed"
          /\ ErrorTerminal(events, AnalysisError(<<"Failed to pull model", "Model pull error">>))
          /\ UNCHANGED chunksRead
     ELSE /\ chunksRead' = chunksRead + 1
          /\ UNCHANGED <<events, streamEnded, pc, install>>
  /\ UNCHANGED <<files, httpStatus, fileVars, connection, modelCheck,
                 docVars, imageVars, called, cleanupVars, fbInput, fbResult,
                 aggResponse, pdfVars, countVars, overlapVars, clientVars>>

\* ollamaService.js 78-79, 103-106: reader.read() returned done
PullDone ==
  /\ pc = "pullRead"
  /\ pc' = "pullVerify"
  /\ chunksRead' = 0
  /\ UNCHANGED <<requestVars, fileVars, connection, modelCheck, install, docVars,
                 imageVars, called, cleanupVars, fbVars, pdfVars, countVars, overlapVars, clientVars>>

\* ollamaService.js 106-114, creditAnalyzer.js 13-28: the availability check
\* after the pull returned
PullVerify(available) ==
  /\ pc = "pullVerify"
  /\ IF available
     THEN /\ install' = "ok"
          /\ StartExtraction(events)
          /\ UNCHANGED streamEnded
     ELSE /\ install' = "failed"
          /\ ErrorTerminal(events, AnalysisError(<<"Failed to pull model",
                                     "Model pull completed but model is not available">>))
          /\ UNCHANGED <<docVars, imageVars, called>>
  /\ UNCHANGED <<files, httpStatus, fileVars, connection, modelCheck, chunksRead,
                 cleanupVars, fbVars, pdfVars, countVars, overlapVars, clientVars>>

CurrentDoc == processedDocuments[docIndex]
CurrentImage == CurrentDoc.images[pageIdx + 1]

\* ollamaService.js 117-171: one attempt of analyzeImage finished.  It
\* returns the response, or its catch clause waits for the retry, or it
\* throws to the caller of the outermost call.
Attempt(o) ==
  /\ pc = "attempt"
  /\ attempts' = IF attempts < AttemptsCap THEN attempts + 1 ELSE attempts
  /\ called' = called \cup {"analyzeImage"}
                      \cup (IF o = "Image file not found" THEN {} ELSE {"generate:page"})
  /\ IF o = "ok"
     THEN /\ settled' = [ok |-> TRUE, analysis |-> "response", error |-> NoError]
          /\ pc' = "imageSettled"
          /\ UNCHANGED <<retryCount, lastError>>
     ELSE IF ShouldRetry(retryCount)
     THEN /\ lastError' = <<o>>
          /\ pc' = "retryDelay"
          /\ UNCHANGED <<retryCount, settled>>
     ELSE IF RecursiveCallInsideTry /\ retryCount > 0
     THEN /\ lastError' = ExhaustedError(<<o>>)
          /\ retryCount' = retryCount - 1
          /\ pc' = "retryDelay"
          /\ UNCHANGED settled
     ELSE /\ settled' = [ok |-> FALSE, analysis |-> Undefined, error |-> ExhaustedError(<<o>>)]
          /\ lastError' = <<o>>
          /\ pc' = "imageSettled"
          /\ UNCHANGED retryCount
  /\ attemptFailed' = (attemptFailed \/ (detailed /\ o # "ok"))
  /\ pageRequests' = Counted(pageRequests, CurrentDoc.id, o # "Image file not found")
  /\ callTrace' = Traced(callTrace, o)
  /\ UNCHANGED <<requestVars, fileVars, gatewayVars, docVars, pageIdx, results,
                 cleanupVars, fbInput, fbResult, aggResponse, pdfVars, detailed, overlapVars, clientVars,
                 aggregateRequests>>

\* ollamaService.js 166-167, 117-118: the retry delay elapsed, the next
\* call starts with nothing caught yet
RetryDelay ==
  /\ pc = "retryDelay"
  /\ retryCount' = NextRetryCount(retryCount)
  /\ lastError' = NoError
  /\ pc' = "attempt"
  /\ callTrace' = Traced(callTrace, "wait")
  /\ UNCHANGED <<requestVars, fileVars, gatewayVars, docVars, pageIdx, results,
                 attempts, settled, called, cleanupVars, fbInput, fbResult,
                 aggResponse, pdfVars, countVars, overlapVars, clientVars>>

\* ollamaService.js 185-208, creditAnalyzer.js 74-84 and 29-47: analyzeImage settled;
\* the page is recorded and the next page starts, or analyzeMultipleImages
\* returns, the document's entry is pushed and the extraction loop goes on
RecordPage ==
  /\ pc = "imageSettled"
  /\ LET rec == IF settled.ok
                THEN SuccessRecord(pageIdx, CurrentImage, settled.analysis)
                ELSE FailureRecord(pageIdx, CurrentImage, settled.error)
         res == Append(results, rec)
     IN IF pageIdx + 1 < Len(CurrentDoc.images)
        THEN /\ pageIdx' = pageIdx + 1
             /\ results' = res
             /\ retryCount' = 0
             /\ attempts' = 0
             /\ lastError' = NoError
             /\ settled' = NoSettled
             /\ pc' = "attempt"
             /\ UNCHANGED <<events, docVars, called>>
        ELSE DocLoopContinue(docIndex + 1, events,
               Append(extractedData,
                      ExtractedEntry(ImageDocumentAnalysis(CurrentDoc, res), CurrentDoc)))
  /\ UNCHANGED <<files, httpStatus, streamEnded, fileVars, gatewayVars, cleanupVars, fbVars, pdfVars, countVars, overlapVars, clientVars>>

\* ollamaService.js 256-306, creditAnalyzer.js 51-61, server.js 213-248:
\* the aggregate request was answered; the report is returned, the final
\* events are written, the stream is ended and the cleanup is scheduled
GenerateCreditAnalysis(response) ==
  /\ pc = "generate"
  /\ LET creditAnalysis == generateCreditAnalysis(extractedData, response)
         analysis == MergedReport(creditAnalysis, extractedData, processedDocuments)
     IN events' = events \o FinishEvents(analysis)
  /\ called' = called \cup {"generate:aggregate"}
  /\ streamEnded' = TRUE
  /\ cleanupScheduled' = TRUE
  /\ pc' = "ended"
  /\ aggregateRequests' = IF detailed THEN aggregateRequests + 1 ELSE aggregateRequests
  /\ UNCHANGED <<files, httpStatus, fileVars, gatewayVars, docVars, imageVars,
                 removed, fbVars, pdfVars, detailed, overlapVars, clientVars, attemptFailed, pageRequests>>

\* The kinds of path the cleanup removes; the removals of at most one kind
\* reject in one run of the timer, and only in a request followed in detail
RemovalKinds == {"upload", "image", "tempdir", "unencrypted"}

RemovalFaults == {{}} \cup { {kind} : kind \in RemovalKinds }

\* documentProcessor.js 126-137: fs.remove(outputDir) is awaited bare inside
\* the try, so when it rejects the catch runs and the decrypted copy is not
\* tried; the removal of the copy has its own .catch
DocumentCleanup(documentId, fails) ==
  IF "tempdir" \in fails
  THEN {<<"tempdir", documentId>>}
  ELSE {<<"tempdir", documentId>>, <<"unencrypted", documentId>>}

\* server.js 230-243: every removal has its own .catch(() => {})
RemovalAttempts(requestFiles, documents, fails) ==
  { <<"upload", requestFiles[i].filename>> : i \in DOMAIN requestFiles }
  \cup UNION { { <<"image", documents[d].images[p]>> : p \in DOMAIN documents[d].images } :
               d \in DOMAIN documents }
  \cup UNION { DocumentCleanup(documents[d].id, fails) : d \in DOMAIN documents }

\* server.js 227-248, documentProcessor.js 126-137: the cleanup timer fired
CleanupTimer(fails) ==
  /\ pc = "ended"
  /\ cleanupScheduled
  /\ fails # {} => detailed
  /\ removed' = RemovalAttempts(files, processedDocuments, fails)
  /\ cleanupScheduled' = FALSE
  /\ pc' = "cleaned"
  /\ UNCHANGED <<requestVars, fileVars, gatewayVars, docVars, imageVars, called, fbVars, pdfVars, countVars, overlapVars, clientVars>>

Next ==
  \/ OpenStream
  \/ \E ok \in BOOLEAN : CheckConnection(ok)
  \/ \E exists \in BOOLEAN : PathExists(exists)
  \/ \E ok \in BOOLEAN : ProcessDocument(ok)
  \/ \E available \in BOOLEAN : IsModelAvailable(available)
  \/ \E ok \in BOOLEAN : PullRequest(ok)
  \/ \E chunk \in RequestChunks : PullRead(chunk)
  \/ PullDone
  \/ \E available \in BOOLEAN : PullVerify(available)
  \/ \E o \in {"ok"} \cup FailKinds : Attempt(o)
  \/ RetryDelay
  \/ RecordPage
  \/ \E response \in AggregateResponses : GenerateCreditAnalysis(response)
  \/ \E fails \in RemovalFaults : CleanupTimer(fails)

Spec == Init /\ [][Next]_vars

\* The requests followed in detail or under fairness have up to
\* MaxDetailPages pages
MaxDetailPages == 2

\* Every await returns: a suspended request is eventually resumed.  The
\* declared document type of a file takes part in no branch of the
\* pipeline, so the fair behaviours are explored for one declared type,
\* on requests of up to MaxDetailPages pages.
FairInit ==
  /\ Init
  /\ \A i \in DOMAIN files : files[i].type = "other"
  /\ SumPages(files) <= MaxDetailPages

FairSpec == FairInit /\ [][Next]_vars /\ WF_vars(Next)

\* The same request with its failed analyzeImage attempts noted and its
\* generation requests counted, for one declared type and up to
\* MaxDetailPages pages in the request
DetailInit ==
  /\ files \in { MkFiles(f) : f \in { l \in FileLists : SumPages(l) <= MaxDetailPages } }
  /\ \A i \in DOMAIN files : files[i].type = "other"
  /\ pc = "received"
  /\ PipelineInit
  /\ fbInput = <<>>
  /\ fbResult = NoReport
  /\ aggResponse = NoRaw
  /\ callTrace = NoTrace
  /\ detailed = TRUE
  /\ other = NoOther
  /\ client = NoClient
  /\ NoCounts
  /\ NoPdfCall

DetailSpec == DetailInit /\ [][Next]_vars

\* ------------------------------------------------------------------------
\* ApiService.analyzeWithStreaming (useDropzone.ts 151-221) called on its
\* own.  The response body is the text of up to MaxClientEvents events,
\* each written as  data: <json>\n\n ; the transport delivers the text in
\* chunks of up to MaxChunkLen pieces, cut anywhere.  The text of an event
\* is two pieces, so that a chunk can end inside it.
\* ------------------------------------------------------------------------
MaxClientEvents == 3
MaxChunkLen == 5

ClientSteps == {"progress", "result", "error"}

ClientStreams ==
  UNION { { [i \in 1..n |-> [step |-> kinds[i], id |-> i]] : kinds \in [1..n -> ClientSteps] } :
          n \in 0..MaxClientEvents }

Newline == [ev |-> 0, part |-> 0]

\* res.write(`data: ${JSON.stringify(event)}\n\n`) for every event
StreamText(stream) ==
  [k \in 1..(4 * Len(stream)) |->
     IF (k - 1) % 4 = 0 THEN [ev |-> (k - 1) \div 4 + 1, part |-> 1]
     ELSE IF (k - 1) % 4 = 1 THEN [ev |-> (k - 1) \div 4 + 1, part |-> 2]
     ELSE Newline]

\* text.split('\n')
RECURSIVE SplitLines(_, _, _)
SplitLines(text, current, lines) ==
  IF text = <<>> THEN Append(lines, current)
  ELSE IF Head(text) = Newline
       THEN SplitLines(Tail(text), <<>>, Append(lines, current))
       ELSE SplitLines(Tail(text), Append(current, Head(text)), lines)

CarryDropped(rest) == <<>>

\* buffer = lines.pop() || ''
Carry(rest) == rest

\* line.startsWith('data: ')
StartsWithData(line) == line # <<>> /\ line[1].part = 1

\* JSON.parse(line.slice(6)) succeeds on the whole text of one event
ParsesAsEvent(line) ==
  Len(line) = 2 /\ line[1].part = 1 /\ line[2].part = 2 /\ line[1].ev = line[2].ev

Pending == [state |-> "pending", from |-> "none", id |-> 0]

\* resolve / reject: a settled promise keeps its outcome
Settle(promise, outcome) == IF promise = Pending THEN outcome ELSE promise

\* the loop over the lines of one read, up to its return
RECURSIVE HandleLines(_, _, _, _)
HandleLines(lines, k, stream, st) ==
  IF k > Len(lines) THEN st
  ELSE IF ~(StartsWithData(lines[k]) /\ ParsesAsEvent(lines[k]))
  THEN HandleLines(lines, k + 1, stream, st)
  ELSE LET data == stream[lines[k][1].ev]
       IN IF data.step = "result"
          THEN [st EXCEPT !.promise = Settle(@, [state |-> "resolved", from |-> "event", id |-> data.id]),
                          !.settles = @ + 1, !.phase = "stopped"]
          ELSE IF data.step = "error"
          THEN [st EXCEPT !.promise = Settle(@, [state |-> "rejected", from |-> "event", id |-> data.id]),
                          !.settles = @ + 1, !.phase = "stopped"]
          ELSE HandleLines(lines, k + 1, stream,
                           [st EXCEPT !.progress = Append(@, data)])

ClientUnchanged ==
  UNCHANGED <<requestVars, pc, fileVars, gatewayVars, docVars, imageVars, called,
              cleanupVars, fbVars, countVars, pdfVars, overlapVars>>

ClientInit ==
  /\ files = <<>>
  /\ pc = "client"
  /\ PipelineInit
  /\ fbInput = <<>>
  /\ fbResult = NoReport
  /\ aggResponse = NoRaw
  /\ callTrace = NoTrace
  /\ detailed = FALSE
  /\ other = NoOther
  /\ NoCounts
  /\ NoPdfCall
  /\ \E stream \in ClientStreams :
       client = [phase |-> "fetch", stream |-> stream, pos |-> 0, buffer |-> <<>>,
                 promise |-> Pending, progress |-> <<>>, settles |-> 0]

\* useDropzone.ts 157-173, 217: fetch settled; a rejected fetch, a status
\* that is not OK and a missing body reject the promise
ClientFetch(outcome) ==
  /\ client.phase = "fetch"
  /\ client' = IF outcome = "ok"
               THEN [client EXCEPT !.phase = "reading"]
               ELSE [client EXCEPT !.phase = "failed", !.settles = @ + 1,
                       !.promise = Settle(@, [state |-> "rejected", from |-> outcome, id |-> 0])]
  /\ ClientUnchanged

\* useDropzone.ts 178-212: reader.read() returned the next n pieces
ClientRead(n) ==
  /\ client.phase = "reading"
  /\ client.pos + n <= Len(StreamText(client.stream))
  /\ LET chunk == SubSeq(StreamText(client.stream), client.pos + 1, client.pos + n)
         split == SplitLines(client.buffer \o chunk, <<>>, <<>>)
         lines == SubSeq(split, 1, Len(split) - 1)
         read == [client EXCEPT !.pos = @ + n, !.buffer = Carry(split[Len(split)])]
     IN client' = HandleLines(lines, 1, client.stream, read)
  /\ ClientUnchanged

\* useDropzone.ts 179-182: reader.read() returned done
ClientReadDone ==
  /\ client.phase = "reading"
  /\ client.pos = Len(StreamText(client.stream))
  /\ client' = [client EXCEPT !.phase = "done"]
  /\ ClientUnchanged

\* useDropzone.ts 213: reader.read() rejected
ClientReadFails ==
  /\ client.phase = "reading"
  /\ client' = [client EXCEPT !.phase = "failed", !.settles = @ + 1,
                  !.promise = Settle(@, [state |-> "rejected", from |-> "read", id |-> 0])]
  /\ ClientUnchanged

ClientNext ==
  \/ \E outcome \in {"ok", "fetch", "status", "body"} : ClientFetch(outcome)
  \/ \E n \in 1..MaxChunkLen : ClientRead(n)
  \/ ClientReadDone
  \/ ClientReadFails

ClientSpec == ClientInit /\ [][ClientNext]_vars

\* ------------------------------------------------------------------------
\* Two overlapping analyze requests that name the same uploaded files.  The
\* other request processed every file and ended first; its cleanup timer
\* fires at any moment of this request and makes its removals one await at
\* a time, in the order of server.js 230-243.  Nothing else goes wrong:
\* the gateway answers, and a read of this request fails exactly when the
\* path was removed.
\* ------------------------------------------------------------------------
RECURSIVE DocumentRemovals(_, _)
DocumentRemovals(requestFiles, i) ==
  IF i > Len(requestFiles) THEN <<>>
  ELSE LET doc == ProcessedDocument(requestFiles[i])
       IN [p \in DOMAIN doc.images |-> <<"image", doc.images[p]>>]
          \o <<TempDirPath(doc.id)>>
          \o DocumentRemovals(requestFiles, i + 1)

\* the removals of the cleanup timer of a request that processed every file
CleanupQueue(requestFiles) ==
  [i \in DOMAIN requestFiles |-> UploadPath(requestFiles[i])]
  \o DocumentRemovals(requestFiles, 1)

\* fs.remove(path): a directory goes with the images in it
Removes(path, requestFiles) ==
  {path} \cup
  (IF path[1] = "tempdir"
   THEN UNION { RenderedPaths(ProcessedDocument(requestFiles[i])) :
                i \in { k \in DOMAIN requestFiles : requestFiles[k].id = path[2] } }
   ELSE {})

OverlapInit ==
  /\ files \in { MkFiles(f) : f \in { l \in FileLists : SumPages(l) <= MaxDetailPages } }
  /\ \A i \in DOMAIN files : files[i].type = "other"
  /\ pc = "received"
  /\ PipelineInit
  /\ fbInput = <<>>
  /\ fbResult = NoReport
  /\ aggResponse = NoRaw
  /\ callTrace = NoTrace
  /\ detailed = FALSE
  /\ other = [cleanup |-> CleanupQueue(files), gone |-> {}]
  /\ client = NoClient
  /\ NoCounts
  /\ NoPdfCall

\* one removal of the other request's cleanup
OtherRemove ==
  /\ other.cleanup # <<>>
  /\ other' = [cleanup |-> Tail(other.cleanup),
               gone |-> other.gone \cup Removes(Head(other.cleanup), files)]
  /\ UNCHANGED <<requestVars, pc, fileVars, gatewayVars, docVars, imageVars, called,
                 cleanupVars, fbVars, countVars, pdfVars, clientVars>>

OverlapNext ==
  \/ OtherRemove
  \/ OpenStream
  \/ CheckConnection(TRUE)
  \/ PathExists(OnDisk(UploadPath(files[fileIndex])))
  \/ ProcessDocument(OnDisk(UploadPath(files[fileIndex])))
  \/ IsModelAvailable(TRUE)
  \/ Attempt(IF OnDisk(<<"image", CurrentImage>>) THEN "ok" ELSE "Image file not found")
  \/ RetryDelay
  \/ RecordPage
  \/ \E response \in AggregateResponses : GenerateCreditAnalysis(response)
  \/ CleanupTimer({})

OverlapSpec == OverlapInit /\ [][OverlapNext]_vars /\ WF_vars(OverlapNext)

\* ------------------------------------------------------------------------
\* generateFallbackAnalysis called on its own, on every list of document
\* results up to MaxFbDocs entries.  The list is never empty: server.js
\* throws before analyzeDocuments when no document was processed.
\* ------------------------------------------------------------------------
FbEntries == [documentType : DocumentTypes, error : {NoError, <<"Failed to analyze">>}]

FbInputs == UNION { [1..n -> FbEntries] : n \in 1..MaxFbDocs }

FbInit ==
  /\ files = <<>>
  /\ pc = "fallback"
  /\ PipelineInit
  /\ fbInput \in FbInputs
  /\ fbResult = NoReport
  /\ aggResponse = NoRaw
  /\ callTrace = NoTrace
  /\ detailed = FALSE
  /\ other = NoOther
  /\ client = NoClient
  /\ NoCounts
  /\ NoPdfCall

FbApply ==
  /\ pc = "fallback"
  /\ fbResult' = generateFallbackAnalysis(fbInput)
  /\ pc' = "returned"
  /\ UNCHANGED <<requestVars, fileVars, gatewayVars, docVars, imageVars, called,
                 cleanupVars, fbInput, aggResponse, callTrace, countVars, overlapVars, clientVars, pdfVars>>

FbNext == FbApply

FbSpec == FbInit /\ [][FbNext]_vars

\* ------------------------------------------------------------------------
\* analyzeImage called on its own, on the page image of a one-page PDF,
\* with every way an attempt can fail: the image file is missing, the
\* response is not OK, the response is empty, the request does not get
\* through
\* ------------------------------------------------------------------------
AttemptFailKinds == FailKinds \cup {"Empty response from Ollama", "network error"}

ImgInit ==
  /\ files = MkFiles(<<[mimetype |-> PdfMime, type |-> "other", pages |-> 1]>>)
  /\ pc = "attempt"
  /\ httpStatus = 0
  /\ streamEnded = FALSE
  /\ events = <<>>
  /\ fileIndex = 1
  /\ outcomes = <<"processed">>
  /\ processedDocuments = <<ProcessedDocument(files[1])>>
  /\ connection = "ok"
  /\ modelCheck = "available"
  /\ install = "none"
  /\ chunksRead = 0
  /\ docIndex = 1
  /\ extractedData = <<>>
  /\ pageIdx = 0
  /\ results = <<>>
  /\ retryCount = 0
  /\ attempts = 0
  /\ lastError = NoError
  /\ settled = NoSettled
  /\ called = {}
  /\ cleanupScheduled = FALSE
  /\ removed = {}
  /\ fbInput = <<>>
  /\ fbResult = NoReport
  /\ aggResponse = NoRaw
  /\ callTrace = [on |-> TRUE, steps |-> <<>>]
  /\ detailed = FALSE
  /\ other = NoOther
  /\ client = NoClient
  /\ NoCounts
  /\ NoPdfCall

ImgNext ==
  \/ \E o \in {"ok"} \cup AttemptFailKinds : Attempt(o)
  \/ RetryDelay

ImgSpec == ImgInit /\ [][ImgNext]_vars

\* ------------------------------------------------------------------------
\* pullModel called on its own by analyzeDocuments after the availability
\* check returned false, the chunks it reads written down
\* ------------------------------------------------------------------------
PullInit ==
  /\ files = MkFiles(<<[mimetype |-> PdfMime, type |-> "other", pages |-> 1]>>)
  /\ pc = "pullModel"
  /\ httpStatus = 200
  /\ streamEnded = FALSE
  /\ events = <<>>
  /\ fileIndex = 1
  /\ outcomes = <<"processed">>
  /\ processedDocuments = <<ProcessedDocument(files[1])>>
  /\ connection = "ok"
  /\ modelCheck = "unavailable"
  /\ install = "none"
  /\ chunksRead = 0
  /\ docIndex = 0
  /\ extractedData = <<>>
  /\ pageIdx = 0
  /\ results = <<>>
  /\ retryCount = 0
  /\ attempts = 0
  /\ lastError = NoError
  /\ settled = NoSettled
  /\ called = {"analyzeDocuments", "isModelAvailable", "pullModel"}
  /\ cleanupScheduled = FALSE
  /\ removed = {}
  /\ fbInput = <<>>
  /\ fbResult = NoReport
  /\ aggResponse = NoRaw
  /\ callTrace = [on |-> TRUE, steps |-> <<>>]
  /\ detailed = FALSE
  /\ other = NoOther
  /\ client = NoClient
  /\ NoCounts
  /\ NoPdfCall

PullNext ==
  \/ \E ok \in BOOLEAN : PullRequest(ok)
  \/ \E chunk \in PullChunks : PullRead(chunk)
  \/ PullDone
  \/ \E available \in BOOLEAN : PullVerify(available)

PullSpec == PullInit /\ [][PullNext]_vars

\* ------------------------------------------------------------------------
\* processPDF / handleEncryptedPDF called on its own, on a PDF that is
\* plain, damaged, or encrypted with one of the common passwords or with
\* another one.  PDFDocument.load(buffer, { password }) resolves exactly
\* when the password is the document's.
\* ------------------------------------------------------------------------
PdfInputs ==
  [id : 1..MaxFiles, kind : {"plain", "corrupt"}, password : {Undefined}, pages : 1..MaxPages]
  \cup [id : 1..MaxFiles, kind : {"encrypted"},
         password : { commonPasswords[k] : k \in DOMAIN commonPasswords } \cup {"secret"},
         pages : 1..MaxPages]

PdfInit ==
  /\ files = <<>>
  /\ pc = "pdfLoad"
  /\ PipelineInit
  /\ fbInput = <<>>
  /\ fbResult = NoReport
  /\ aggResponse = NoRaw
  /\ callTrace = NoTrace
  /\ detailed = FALSE
  /\ other = NoOther
  /\ client = NoClient
  /\ NoCounts
  /\ pdf \in PdfInputs
  /\ probes = <<>>
  /\ processedPdfPath = OriginalPath
  /\ pdfOutcome = "none"

PdfUnchanged ==
  UNCHANGED <<requestVars, fileVars, gatewayVars, docVars, imageVars, called,
              cleanupVars, fbVars, countVars, overlapVars, clientVars, pdf>>

\* documentProcessor.js 43-56: the first load, without a password.  A
\* document encrypted with the empty password may load or be reported as
\* encrypted; any other error is rethrown.
PdfLoad(loads) ==
  /\ pc = "pdfLoad"
  /\ loads => pdf.kind = "plain" \/ (pdf.kind = "encrypted" /\ pdf.password = "")
  /\ ~loads => pdf.kind # "plain"
  /\ IF loads
     THEN pc' = "render" /\ UNCHANGED pdfOutcome
     ELSE IF pdf.kind = "encrypted"
     THEN pc' = "probe" /\ UNCHANGED pdfOutcome
     ELSE pc' = "pdfDone" /\ pdfOutcome' = "threw"
  /\ UNCHANGED <<probes, processedPdfPath>>
  /\ PdfUnchanged

\* documentProcessor.js 90-108: one iteration of the password loop
Probe ==
  /\ pc = "probe"
  /\ LET password == NextPassword(probes)
     IN /\ probes' = Append(probes, password)
        /\ IF password = pdf.password
           THEN /\ processedPdfPath' = [copy |-> TRUE, password |-> password]
                /\ pc' = "render"
                /\ UNCHANGED pdfOutcome
           ELSE IF Len(probes) + 1 < Len(commonPasswords)
           THEN UNCHANGED <<pc, processedPdfPath, pdfOutcome>>
           ELSE /\ pc' = "pdfDone"
                /\ pdfOutcome' = "threw"
                /\ UNCHANGED processedPdfPath
  /\ PdfUnchanged

\* documentProcessor.js 59-82: the pages are rendered from processedPdfPath
Render(ok) ==
  /\ pc = "render"
  /\ pdfOutcome' = IF ok THEN "returned" ELSE "threw"
  /\ pc' = "pdfDone"
  /\ UNCHANGED <<probes, processedPdfPath>>
  /\ PdfUnchanged

PdfNext ==
  \/ \E loads \in BOOLEAN : PdfLoad(loads)
  \/ Probe
  \/ \E ok \in BOOLEAN : Render(ok)

PdfSpec == PdfInit /\ [][PdfNext]_vars

\* ------------------------------------------------------------------------
\* generateCreditAnalysis called on its own, on every raw response up to
\* MaxTokens tokens
\* ------------------------------------------------------------------------
\* documentCount results of which the first `successful` carry no error
\* field, with or without a core financial document
CountedList(documentCount, successful, financial) ==
  [i \in 1..documentCount |->
     [documentType |-> IF financial /\ i = 1 THEN "profit-loss" ELSE "other",
      error |-> IF i <= successful THEN NoError ELSE <<"Failed to analyze">>]]

AggInputs == { CountedList(1, 1, TRUE), CountedList(2, 1, FALSE) }

AggInit ==
  /\ files = <<>>
  /\ pc = "aggregate"
  /\ PipelineInit
  /\ fbInput \in AggInputs
  /\ fbResult = NoReport
  /\ aggResponse \in RawResponses
  /\ callTrace = NoTrace
  /\ detailed = FALSE
  /\ other = NoOther
  /\ client = NoClient
  /\ NoCounts
  /\ NoPdfCall

AggApply ==
  /\ pc = "aggregate"
  /\ fbResult' = generateCreditAnalysis(fbInput, ParseResponse(aggResponse))
  /\ pc' = "returned"
  /\ UNCHANGED <<requestVars, fileVars, gatewayVars, docVars, imageVars, called,
                 cleanupVars, fbInput, aggResponse, callTrace, countVars, overlapVars, clientVars, pdfVars>>

AggNext == AggApply

AggSpec == AggInit /\ [][AggNext]_vars

\* generateFallbackAnalysis on longer lists: documentCount results of which
\* the first `successful` carry no error field, with or without a core
\* financial document
MaxFbCount == 21

FbWideInputs ==
  { CountedList(n, s, fin) : n \in 1..MaxFbCount, s \in 0..MaxFbCount, fin \in BOOLEAN }

FbWideInit ==
  /\ files = <<>>
  /\ pc = "fallback"
  /\ PipelineInit
  /\ fbInput \in FbWideInputs
  /\ fbResult = NoReport
  /\ aggResponse = NoRaw
  /\ callTrace = NoTrace
  /\ detailed = FALSE
  /\ other = NoOther
  /\ client = NoClient
  /\ NoCounts
  /\ NoPdfCall

FbWideSpec == FbWideInit /\ [][FbNext]_vars

\* ------------------------------------------------------------------------
\* Properties
\* ------------------------------------------------------------------------
Last(seq) == seq[Len(seq)]
TerminalPositions == { i \in DOMAIN events : IsTerminal(events[i]) }
Ended == streamEnded /\ events # <<>> /\ IsTerminal(Last(events))
EndedWith(step) == Ended /\ Last(events).step = step
PageRecords == UNION { { extractedData[d].pageAnalyses[p] : p \in DOMAIN extractedData[d].pageAnalyses } :
                       d \in DOMAIN extractedData }

\* C1: a request that opened the stream writes at most one terminal event
\* (a result carrying the report or an error carrying a message), the
\* terminal event is the last event ever written, the stream is ended in the
\* step that writes it, and an ended stream has its terminal event.
C1_ExactlyOneTerminal ==
  /\ Cardinality(TerminalPositions) <= 1
  /\ TerminalPositions # {} => (TerminalPositions = {Len(events)} /\ streamEnded)
  /\ streamEnded => TerminalPositions # {}
  /\ \A i \in TerminalPositions :
       \/ events[i].step = "result" /\ events[i].result.source # "none" /\ events[i].error = NoError
       \/ events[i].step = "error" /\ events[i].error # NoError /\ events[i].result = NoReport

C1_Witness ==
  /\ pc = "cleaned"
  /\ EndedWith("result")
  /\ Len(events) > 5

\* C2: the progress percentages of the progress events of one request are
\* non-decreasing in emission order.
C2_ProgressNonDecreasing ==
  \A i, j \in DOMAIN events :
    (i < j /\ ~IsTerminal(events[i]) /\ ~IsTerminal(events[j]))
      => Leq(events[i].progress, events[j].progress)

\* C3: once the stream is opened, the request eventually writes its terminal
\* event and ends the stream, whatever fails on the way.
C3_EventuallyTerminal == (httpStatus = 200) ~> Ended

C3_Witness ==
  /\ Ended
  /\ install = "ok"
  /\ \E r \in PageRecords : ~r.success
  /\ \E i \in DOMAIN outcomes : outcomes[i] = "failed"

BatchFatal ==
  \/ connection = "failed"
  \/ connection = "ok" /\ Len(outcomes) = Len(files)
       /\ \A i \in DOMAIN outcomes : outcomes[i] # "processed"
  \/ modelCheck = "unavailable" /\ install = "failed"

\* C4: a request ends with the error event exactly when the connectivity
\* check failed, or no file was normalized, or the model was unavailable and
\* its installation failed; every other request ends with a result event.
C4_ErrorIffBatchFatal ==
  streamEnded =>
    /\ Ended
    /\ EndedWith("error") <=> BatchFatal
    /\ EndedWith("result") <=> ~BatchFatal

C4_Witness ==
  /\ EndedWith("result")
  /\ \E i \in DOMAIN outcomes : outcomes[i] = "missing"
  /\ \E d \in DOMAIN extractedData : extractedData[d].extractedInfo = FailedToExtract

ModelStepPassed == modelCheck = "available" \/ install = "ok"

\* C5: once a document is normalized and the model step has passed, the
\* request ends with a result whose report has a populated rating, whatever
\* the page-level and aggregate requests answer.
C5_ResultAfterModelStep ==
  /\ (ModelStepPassed /\ pc \notin {"ended", "cleaned"}) => ~streamEnded
  /\ (ModelStepPassed /\ streamEnded) =>
       /\ EndedWith("result")
       /\ Truthy(Last(events).result.rating)
       /\ Len(processedDocuments) >= 1

C5_Witness ==
  /\ EndedWith("result")
  /\ Last(events).result.source = "fallback"
  /\ \A d \in DOMAIN extractedData : extractedData[d].extractedInfo = FailedToExtract

\* C6: after a failed connectivity check no file is normalized, no model
\* check, installation or inference is started, and the events are the
\* initialization event followed by the error event.
C6_ConnectivityGate ==
  connection = "failed" =>
    /\ events = <<ProgressEvent("initialization", Pct(5)), ErrorEvent(<<"Cannot connect to Ollama">>)>>
    /\ streamEnded
    /\ fileIndex = 0 /\ outcomes = <<>> /\ processedDocuments = <<>>
    /\ called = {}
    /\ extractedData = <<>> /\ attempts = 0

C6_Witness == connection = "failed" /\ pc = "ended" /\ Len(files) = MaxFiles

ProcessedIndices ==
  SelectSeq([i \in 1..Len(outcomes) |-> i], LAMBDA i : outcomes[i] = "processed")

\* C7: a missing or failing file is skipped and the loop goes on: every file
\* of the request is handled, and the processed documents are exactly the
\* files that normalized successfully, in request order.
C7_SkippedFilesDoNotAbort ==
  /\ Len(processedDocuments) = Len(ProcessedIndices)
  /\ \A k \in DOMAIN processedDocuments :
       /\ processedDocuments[k].id = files[ProcessedIndices[k]].id
       /\ processedDocuments[k].type = files[ProcessedIndices[k]].type
  /\ pc \in {"pathExists", "processDocument"} => Len(outcomes) = fileIndex - 1
  /\ (connection = "ok" /\ pc \notin {"pathExists", "processDocument"})
       => Len(outcomes) = Len(files)

C7_Witness ==
  /\ Len(outcomes) = 2
  /\ outcomes[1] \in {"missing", "failed"}
  /\ outcomes[2] = "processed"
  /\ Len(processedDocuments) = 1

\* C8: an analyzeImage call makes at most maxRetries + 1 attempts, and it
\* fails to its caller only after exactly maxRetries + 1 failed attempts.
C8_BoundedAttempts ==
  /\ attempts <= maxRetries + 1
  /\ retryCount <= maxRetries
  /\ (pc = "imageSettled" /\ ~settled.ok) =>
       (attempts = maxRetries + 1 /\ retryCount = maxRetries)
  /\ pc \in {"retryDelay", "imageSettled"} => attempts = retryCount + 1

C8_Witness == pc = "imageSettled" /\ ~settled.ok /\ attempts = 4

WellFormedRecords(recs, images) ==
  \A i \in DOMAIN recs :
    /\ recs[i].page = i
    /\ recs[i].imagePath = images[i]
    /\ \/ recs[i].success /\ recs[i].analysis # Undefined /\ recs[i].error = NoError
       \/ ~recs[i].success /\ recs[i].analysis = Undefined /\ recs[i].error # NoError

\* C9: analyzeMultipleImages returns one record per image path, the i-th
\* with page = i and the i-th path, each with exactly one of a narrative or
\* an error; a failed page does not stop the later pages.
C9_OneRecordPerPage ==
  /\ \A d \in DOMAIN extractedData :
       extractedData[d].hasPageCount =>
         /\ Len(extractedData[d].pageAnalyses) = Len(processedDocuments[d].images)
         /\ WellFormedRecords(extractedData[d].pageAnalyses, processedDocuments[d].images)
  /\ pc \in {"attempt", "retryDelay", "imageSettled"} =>
       /\ Len(results) = pageIdx
       /\ WellFormedRecords(results, CurrentDoc.images)

C9_Witness ==
  \E d \in DOMAIN extractedData :
    /\ Len(extractedData[d].pageAnalyses) = 2
    /\ ~extractedData[d].pageAnalyses[1].success
    /\ extractedData[d].pageAnalyses[2].success

\* C10: the score of a fallback report is an integer between 30 and 100.
C10_FallbackScoreRange ==
  pc = "returned" =>
    /\ IsInteger(fbResult.score)
    /\ Leq(Pct(30), fbResult.score)
    /\ Leq(fbResult.score, Pct(100))

C10_Witness ==
  /\ pc = "returned"
  /\ Len(fbInput) = 3
  /\ fbResult.score = Pct(57)

Ratings == {"Excellent", "Good", "Fair", "Poor"}

ThresholdRating(score) ==
  IF Leq(Pct(80), score) THEN "Excellent"
  ELSE IF Leq(Pct(70), score) THEN "Good"
  ELSE IF Leq(Pct(60), score) THEN "Fair"
  ELSE "Poor"

\* C12: the report of every result event, from the model or from the
\* fallback, has an integer score within [0,100] and a rating among
\* Excellent/Good/Fair/Poor that the 80/70/60 thresholds give to that score.
C12_ReportScoreAndRating ==
  \A i \in DOMAIN events :
    events[i].step = "result" =>
      /\ IsInteger(events[i].result.score)
      /\ Leq(Pct(0), events[i].result.score)
      /\ Leq(events[i].result.score, Pct(100))
      /\ events[i].result.rating \in Ratings
      /\ events[i].result.rating = ThresholdRating(events[i].result.score)

ModelObject == StripFences(aggResponse.text)[1].object

ModelReport(o) ==
  [source |-> "model", score |-> o.score, rating |-> o.rating, summary |-> o.summary]

\* C13: generateCreditAnalysis returns the model's report when the response
\* was obtained, parses as JSON after fence stripping and has score, rating
\* and summary -- in particular whenever the score is an integer in 0..100
\* with a rating and a non-empty summary; in every other case it returns the
\* fallback report.
C13_ModelReportOrFallback ==
  pc = "returned" /\ aggResponse # NoRaw =>
    LET parsed == aggResponse.ok /\ ParsesAsJSON(StripFences(aggResponse.text))
        complete == /\ ModelObject.hasScore
                    /\ IsInteger(ModelObject.score)
                    /\ Leq(Pct(0), ModelObject.score)
                    /\ Leq(ModelObject.score, Pct(100))
                    /\ Truthy(ModelObject.rating)
                    /\ Truthy(ModelObject.summary)
        missing == \/ ~ModelObject.hasScore
                   \/ ~Truthy(ModelObject.rating)
                   \/ ~Truthy(ModelObject.summary)
    IN /\ parsed /\ complete => fbResult = ModelReport(ModelObject)
       /\ ~parsed \/ missing => fbResult = generateFallbackAnalysis(fbInput)

SuccessfulPages(recs) == { p \in DOMAIN recs : recs[p].success }

\* C14: the combined narrative of a document with a successful page has one
\* segment per successful page and no other, labelled with that page's
\* 1-based number and carrying its narrative, in ascending page order; when
\* every page failed it is the fixed message, never empty.
C14_CombinedNarrative ==
  \A d \in DOMAIN extractedData :
    extractedData[d].hasPageCount =>
      LET recs == extractedData[d].pageAnalyses
          info == extractedData[d].extractedInfo
      IN /\ info # <<>>
         /\ SuccessfulPages(recs) = {} =>
              info = <<[label |-> 0,
                        text |-> "Failed to extract information from document pages"]>>
         /\ SuccessfulPages(recs) # {} =>
              /\ Len(info) = Cardinality(SuccessfulPages(recs))
              /\ \A k \in DOMAIN info :
                   /\ info[k].label \in SuccessfulPages(recs)
                   /\ info[k].text = recs[info[k].label].analysis
                   /\ info[k].text # Undefined
              /\ \A k, l \in DOMAIN info : k < l => info[k].label < info[l].label

C14_Witness ==
  \E d \in DOMAIN extractedData :
    /\ extractedData[d].hasPageCount
    /\ SuccessfulPages(extractedData[d].pageAnalyses) = {2}
    /\ extractedData[d].extractedInfo = <<[label |-> 2, text |-> "response"]>>

\* C15: the report of a result has one documentAnalysis entry per
\* normalized document, in normalization order, with its id, name and
\* declared type; totalDocuments is their number and documentTypes their
\* types in order; a PDF's pageCount is the number of its images and of its
\* page records.
C15_DocumentEntries ==
  EndedWith("result") =>
    LET report == Last(events).result
        entries == report.documentAnalysis
    IN /\ Len(entries) = Len(ProcessedIndices)
       /\ report.totalDocuments = Len(ProcessedIndices)
       /\ report.documentTypes = [k \in DOMAIN ProcessedIndices |-> files[ProcessedIndices[k]].type]
       /\ \A k \in DOMAIN entries :
            LET file == files[ProcessedIndices[k]]
            IN /\ entries[k].documentId = file.id
               /\ entries[k].documentName = file.originalName
               /\ entries[k].documentType = file.type
               /\ file.mimetype = PdfMime =>
                    /\ entries[k].hasPageCount
                    /\ entries[k].pageCount = Len(processedDocuments[k].images)
                    /\ entries[k].pageCount = Len(entries[k].pageAnalyses)
                    /\ entries[k].pageCount = file.pages

C15_Witness ==
  /\ EndedWith("result")
  /\ Len(files) = 2
  /\ outcomes[1] = "failed"
  /\ Len(Last(events).result.documentAnalysis) = 1
  /\ Last(events).result.documentAnalysis[1].documentId = files[2].id
  /\ Last(events).result.documentAnalysis[1].pageCount = 2
  /\ ~Last(events).result.documentAnalysis[1].pageAnalyses[1].success

\* number of page images of the processed document made from file i; 0 for
\* a text-only document and for a file that was skipped
ImagesOf(i) ==
  IF \E k \in DOMAIN processedDocuments : processedDocuments[k].id = i
  THEN Len(processedDocuments[CHOOSE k \in DOMAIN processedDocuments :
                                 processedDocuments[k].id = i].images)
  ELSE 0

HealthyRunCounts ==
  EndedWith("result") /\ ~attemptFailed =>
    /\ \A i \in DOMAIN files : pageRequests[i] = ImagesOf(i)
    /\ aggregateRequests = 1
    /\ Last(events).progress = Pct(100)

\* C16 as stated: when every attempt succeeds the page-level requests are
\* the page images, one aggregate request is made and the final event has
\* progress 100; in general a document with k page images causes at least
\* k and at most 4k page-level requests, a text-only document none, and at
\* most one aggregate request is made.
C16_RequestCounts ==
  detailed =>
    /\ HealthyRunCounts
    /\ \A i \in DOMAIN files : pageRequests[i] <= 4 * ImagesOf(i)
    /\ \A d \in DOMAIN extractedData :
         pageRequests[processedDocuments[d].id] >= Len(processedDocuments[d].images)
    /\ aggregateRequests <= 1

\* C16, amended: as above, but the lower bound is one request per
\* successfully analysed page; an attempt that finds its image file missing
\* sends no request, so a document with k page images may cause fewer than
\* k requests.
C16_RequestCountsAmended ==
  detailed =>
    /\ HealthyRunCounts
    /\ \A i \in DOMAIN files : pageRequests[i] <= 4 * ImagesOf(i)
    /\ \A d \in DOMAIN extractedData :
         pageRequests[processedDocuments[d].id] >=
           Cardinality(SuccessfulPages(extractedData[d].pageAnalyses))
    /\ aggregateRequests <= 1

C16_Witness ==
  /\ detailed
  /\ EndedWith("result")
  /\ attemptFailed
  /\ aggregateRequests = 1
  /\ \E i \in DOMAIN files : ImagesOf(i) = 2 /\ pageRequests[i] = 1

InRange(progress, low, high) == Leq(Pct(low), progress) /\ Leq(progress, Pct(high))

\* C17: every progress event lies in the range of its phase:
\* initialization in [0,10], processing in [10,70], analysis in [70,95] and
\* complete in [95,100].
C17_PhaseRanges ==
  \A i \in DOMAIN events :
    /\ events[i].step = "initialization" => InRange(events[i].progress, 0, 10)
    /\ events[i].step = "processing" => InRange(events[i].progress, 10, 70)
    /\ events[i].step = "analysis" => InRange(events[i].progress, 70, 95)
    /\ events[i].step = "complete" => InRange(events[i].progress, 95, 100)

Uploads == { <<"upload", files[i].filename>> : i \in DOMAIN files }

RenderedImages ==
  UNION { { <<"image", processedDocuments[d].images[p]>> :
              p \in DOMAIN processedDocuments[d].images } :
          d \in DOMAIN processedDocuments }

TempDirs == { <<"tempdir", processedDocuments[d].id>> : d \in DOMAIN processedDocuments }

DecryptedCopies == { <<"unencrypted", processedDocuments[d].id>> : d \in DOMAIN processedDocuments }

\* the request is over and no timer is pending: nothing further happens
Quiescent == pc = "cleaned" \/ (pc = "ended" /\ ~cleanupScheduled)

\* C18: once a request that opened the stream is over, with a result or
\* with an error, the cleanup has run and tried to remove every uploaded
\* original of the request and every page image and temp directory made
\* for it.
C18_CleanupCoversRequest ==
  Quiescent => (Uploads \cup RenderedImages \cup TempDirs) \subseteq removed

\* C19: nothing is removed before the terminal event is written and the
\* stream ended; removals happen in the timer only, which writes no event
\* and runs once; a removal that fails does not keep the timer from trying
\* every other removal.
C19_CleanupAfterStreamEnd ==
  /\ removed # {} =>
       /\ pc = "cleaned"
       /\ streamEnded
       /\ TerminalPositions = {Len(events)}
  /\ pc = "cleaned" =>
       /\ ~cleanupScheduled
       /\ (Uploads \cup RenderedImages \cup TempDirs \cup DecryptedCopies) \subseteq removed

IsPrefix(s, t) == Len(s) <= Len(t) /\ s = SubSeq(t, 1, Len(s))

ProbingOver == pc \in {"render", "pdfDone"} /\ probes # <<>>

InferenceCalls == {"analyzeImage", "generate:page", "generate:aggregate"}

\* C21: when the availability check returns false, pullModel is invoked
\* before any inference; inference starts only once the model was found
\* or installed; a failed installation leaves the request without any
\* page-level or aggregate inference and ends it with the error event.
C21_InstallBeforeInference ==
  /\ modelCheck = "unavailable" => "pullModel" \in called
  /\ called \cap InferenceCalls # {} =>
       modelCheck = "available" \/ (modelCheck = "unavailable" /\ install = "ok")
  /\ pc \in {"attempt", "retryDelay", "imageSettled", "generate"} =>
       modelCheck = "available" \/ install = "ok"
  /\ install = "failed" =>
       /\ modelCheck = "unavailable"
       /\ called \cap InferenceCalls = {}
       /\ EndedWith("error")
       /\ extractedData = <<>>

C21_Witness ==
  /\ modelCheck = "unavailable"
  /\ install = "failed"
  /\ EndedWith("error")
  /\ Len(processedDocuments) = 2
  /\ "pullModel" \in called

TraceSteps == callTrace.steps

AttemptsIn(steps) == { i \in DOMAIN steps : steps[i] # "wait" }

\* C22: analyzeImage returns the response of its first successful attempt
\* and attempts nothing after it; every kind of failure is retried alike;
\* one wait precedes each retry and none follows the last failure; the
\* error thrown after the 4th failure is the 4th attempt's message, wrapped
\* once.
C22_RetryDiscipline ==
  callTrace.on =>
    /\ \A i \in DOMAIN TraceSteps : (TraceSteps[i] = "wait") <=> (i % 2 = 0)
    /\ \A i \in DOMAIN TraceSteps : TraceSteps[i] = "ok" => i = Len(TraceSteps)
    /\ Cardinality(AttemptsIn(TraceSteps)) <= 4
    /\ pc = "retryDelay" =>
         /\ Last(TraceSteps) \in AttemptFailKinds
         /\ Cardinality(AttemptsIn(TraceSteps)) < 4
    /\ pc = "attempt" => TraceSteps = <<>> \/ Last(TraceSteps) = "wait"
    /\ pc = "imageSettled" =>
         /\ Len(TraceSteps) = 2 * Cardinality(AttemptsIn(TraceSteps)) - 1
         /\ settled.ok <=> Last(TraceSteps) = "ok"
         /\ settled.ok => settled.analysis = "response"
         /\ ~settled.ok =>
              /\ Cardinality(AttemptsIn(TraceSteps)) = 4
              /\ settled.error = <<"Failed to analyze image after attempts", Last(TraceSteps)>>

C22_Witness ==
  /\ pc = "imageSettled"
  /\ TraceSteps = <<"Image file not found", "wait", "Ollama API error", "wait",
                    "network error", "wait", "Empty response from Ollama">>
  /\ settled.error = <<"Failed to analyze image after attempts", "Empty response from Ollama">>

SuccessfulIn(list) == Cardinality({ i \in DOMAIN list : list[i].error = <<>> })

CoreTypePresent(list) ==
  \E i \in DOMAIN list : list[i].documentType \in {"profit-loss", "balance-sheet", "bank-statement"}

\* numerator over Len(list) of clamp(baseScore + bonus, 30, 100)
ClampedTimesCount(list) ==
  LET n == Len(list)
      raw == (IF CoreTypePresent(list) THEN 70 ELSE 50) * n + 20 * SuccessfulIn(list)
  IN IF raw < 30 * n THEN 30 * n ELSE IF raw > 100 * n THEN 100 * n ELSE raw

\* C23: the fallback score is round(clamp(baseScore + bonus, 30, 100)) with
\* baseScore 70 when a core financial type is present and 50 otherwise and
\* bonus 20 times the share of entries without error; strengths, risk
\* factors and recommendations are fixed by the presence of a core type.
C23_FallbackScoreFormula ==
  pc = "returned" /\ fbInput # <<>> =>
    LET n == Len(fbInput)
        k == fbResult.score[1]
    IN /\ fbResult.score[2] = 1
       /\ 2 * n * k <= 2 * ClampedTimesCount(fbInput) + n
       /\ 2 * ClampedTimesCount(fbInput) + n < 2 * n * (k + 1)
       /\ Len(fbResult.strengths) = 4 /\ Len(fbResult.riskFactors) = 3
       /\ Len(fbResult.recommendations) = 5
       /\ LET single == generateFallbackAnalysis(CountedList(1, 0, CoreTypePresent(fbInput)))
          IN /\ fbResult.strengths = single.strengths
             /\ fbResult.riskFactors = single.riskFactors
             /\ fbResult.recommendations = single.recommendations
       /\ fbResult.strengths[4] = IF CoreTypePresent(fbInput)
                                  THEN "Comprehensive financial statements included"
                                  ELSE "Willingness to provide documentation"

C23_Witness ==
  /\ pc = "returned"
  /\ Len(fbInput) = 3
  /\ SuccessfulIn(fbInput) = 2
  /\ ~CoreTypePresent(fbInput)
  /\ fbResult.score = <<63, 1>>
  /\ fbResult.strengths[4] = "Willingness to provide documentation"

\* the integer nearest to score * num / den, halves upwards
RoundedFraction(score, num, den) == <<(2 * score * num + den) \div (2 * den), 1>>

PagePhase == pc \in {"attempt", "retryDelay", "imageSettled"}
InferencePhase == PagePhase \/ pc = "generate"

\* The inference requests outstanding: the page-level request of the
\* attempt in progress, the aggregate request
Outstanding ==
  (IF pc = "attempt" THEN 1 ELSE 0) + (IF pc = "generate" THEN 1 ELSE 0)

\* C25: the stages of one request run in sequence.  Every file has been
\* handled by the processing loop before the first inference; while the
\* pages of document j are inferred, exactly the documents before j have
\* their entries, in order, each with all its pages, and the pages of j
\* recorded so far are 1..pageIdx in ascending order; an attempt starts
\* with nothing settled and the retry wait follows a finished attempt; the
\* aggregate request starts after every document has its complete entry;
\* at most one inference request is outstanding.
C25_StagesInSequence ==
  /\ Outstanding <= 1
  /\ (InferencePhase \/ called \cap InferenceCalls # {}) =>
       /\ Len(outcomes) = Len(files)
       /\ fileIndex = Len(files)
  /\ PagePhase =>
       /\ docIndex \in DOMAIN processedDocuments
       /\ Len(extractedData) = docIndex - 1
       /\ pageIdx < Len(CurrentDoc.images)
       /\ Len(results) = pageIdx
       /\ \A p \in DOMAIN results : results[p].page = p
       /\ "generate:aggregate" \notin called
  /\ pc = "attempt" => settled = NoSettled /\ lastError = NoError
  /\ pc = "retryDelay" => settled = NoSettled /\ lastError # NoError /\ attempts > 0
  /\ pc = "imageSettled" => settled # NoSettled /\ attempts > 0
  /\ \A d \in DOMAIN extractedData :
       /\ d \in DOMAIN processedDocuments
       /\ extractedData[d].documentId = processedDocuments[d].id
       /\ Len(extractedData[d].pageAnalyses) = Len(processedDocuments[d].images)
       /\ \A p \in DOMAIN extractedData[d].pageAnalyses :
            extractedData[d].pageAnalyses[p].page = p
  /\ (pc = "generate" \/ "generate:aggregate" \in called) =>
       Len(extractedData) = Len(processedDocuments)

\* the second document's first page is being retried after the first
\* document's two pages were recorded
C25_Witness ==
  /\ pc = "attempt"
  /\ docIndex = 2
  /\ retryCount = 1
  /\ Len(extractedData) = 1
  /\ Len(extractedData[1].pageAnalyses) = 2
  /\ Len(outcomes) = Len(files)

TextOnly(document) == document.mimetype # PdfMime

\* C26: the entry of a text-only document carries the document's text
\* unchanged as its narrative, has the non-visual flag set, has no page
\* count and no page records, and no analyzeImage call and no generation
\* request was made for the document.
C26_TextOnlyDocument ==
  \A d \in DOMAIN extractedData :
    TextOnly(processedDocuments[d]) =>
      /\ processedDocuments[d].images = <<>>
      /\ processedDocuments[d].text # ""
      /\ extractedData[d].extractedInfo = <<[label |-> 0, text |-> processedDocuments[d].text]>>
      /\ extractedData[d].textAnalysis
      /\ ~extractedData[d].hasPageCount
      /\ extractedData[d].pageAnalyses = <<>>
      /\ extractedData[d].type = processedDocuments[d].type
      /\ pageRequests[processedDocuments[d].id] = 0
      /\ (\A k \in DOMAIN processedDocuments : TextOnly(processedDocuments[k])) =>
           called \cap {"analyzeImage", "generate:page"} = {}

\* a text-only document was analysed after a PDF whose page was inferred
C26_Witness ==
  /\ EndedWith("result")
  /\ Len(extractedData) = 2
  /\ ~TextOnly(processedDocuments[1])
  /\ TextOnly(processedDocuments[2])
  /\ pageRequests[processedDocuments[1].id] > 0
  /\ extractedData[2].textAnalysis

\* the pull stream carried an error object: as a whole line of a chunk, or
\* cut in two by the boundary between two consecutive chunks
StreamReportsError(chunks) ==
  \/ \E c \in DOMAIN chunks : \E i \in DOMAIN chunks[c] : chunks[c][i] = "error"
  \/ \E c \in DOMAIN chunks :
       /\ c < Len(chunks)
       /\ Last(chunks[c]) = "error-head"
       /\ chunks[c + 1][1] = "error-tail"

PullFailure(message) ==
  AnalysisError(<<"Failed to pull model", message>>)

\* C27: pullModel fails whenever the stream carried an error object,
\* however its lines were cut into chunks, and whenever the follow-up
\* availability check reports the model unavailable; it succeeds only if
\* no error was reported and the follow-up check reports the model
\* available.
C27_PullModelOutcome ==
  callTrace.on =>
    /\ install = "ok" => ~StreamReportsError(TraceSteps)
    /\ pc = "pullVerify" => ~StreamReportsError(TraceSteps)
    /\ install = "failed" =>
         /\ EndedWith("error")
         /\ Last(events).error \in
              { PullFailure("Failed to pull model: status"),
                PullFailure("Model pull error"),
                PullFailure("Model pull completed but model is not available") }
         /\ Last(events).error = PullFailure("Model pull error") <=>
              StreamReportsError(TraceSteps)

FallbackResults ==
  { events[i].result : i \in { k \in DOMAIN events :
      events[k].step = "result" /\ events[k].result.source = "fallback" } }

\* C28: no document entry of the pipeline carries an error, whatever the
\* outcomes of its pages; a fallback report in a result event therefore
\* has score 90 and rating Excellent when a core financial type is among
\* the documents, score 70 and rating Good otherwise, and never Fair or
\* Poor.
C28_PipelineFallbackScores ==
  /\ \A d \in DOMAIN extractedData : extractedData[d].error = NoError
  /\ \A r \in FallbackResults :
       /\ r.totalDocuments = Len(extractedData)
       /\ r.documentAnalysis = extractedData
       /\ IF \E d \in DOMAIN extractedData : extractedData[d].documentType \in FinancialTypes
          THEN r.score = Pct(90) /\ r.rating = "Excellent"
          ELSE r.score = Pct(70) /\ r.rating = "Good"
       /\ r.rating \notin {"Fair", "Poor"}

\* a fallback report although every page of the only document failed
C28_Witness ==
  /\ EndedWith("result")
  /\ Last(events).result.source = "fallback"
  /\ Last(events).result.score = Pct(70)
  /\ Len(extractedData) = 1
  /\ Len(extractedData[1].pageAnalyses) = 2
  /\ \A p \in DOMAIN extractedData[1].pageAnalyses : ~extractedData[1].pageAnalyses[p].success

FailedPages == { r \in PageRecords \cup { results[p] : p \in DOMAIN results } : ~r.success }

\* what the removals of the other request have done to this one so far
OverlapEffects ==
  /\ Cardinality(TerminalPositions) <= 1
  /\ streamEnded => TerminalPositions = {Len(events)}
  /\ \A i \in DOMAIN outcomes :
       outcomes[i] # "processed" => UploadPath(files[i]) \in other.gone
  /\ Len(processedDocuments) = Cardinality({ i \in DOMAIN outcomes : outcomes[i] = "processed" })
  /\ \A r \in FailedPages :
       /\ <<"image", r.imagePath>> \in other.gone
       /\ r.error = ExhaustedError(<<"Image file not found">>)
  /\ \A d \in DOMAIN extractedData : extractedData[d].error = NoError
  /\ EndedWith("error") =>
       /\ Last(events).error = <<"No documents could be processed successfully">>
       /\ processedDocuments = <<>>

\* a step of this request that reads a path the other request removed
ReadsOfRemovedPaths ==
  other'.cleanup = other.cleanup =>
    /\ pc = "pathExists" /\ UploadPath(files[fileIndex]) \in other.gone =>
         /\ outcomes' = Append(outcomes, "missing")
         /\ processedDocuments' = processedDocuments
    /\ pc = "processDocument" /\ UploadPath(files[fileIndex]) \in other.gone =>
         /\ outcomes' = Append(outcomes, "failed")
         /\ processedDocuments' = processedDocuments
    /\ pc = "attempt" /\ <<"image", CurrentImage>> \in other.gone =>
         \/ pc' = "retryDelay"
         \/ pc' = "imageSettled" /\ ~settled'.ok

\* C29: two overlapping requests that name the same files share the upload
\* path, the page images and the temp directory.  When the cleanup of the
\* request that ended first removes a path before this request read it,
\* this request skips the file (its existence check or its processing
\* fails) or records the page as failed after its attempts; nothing else
\* fails, no entry carries an error, and the request writes exactly one
\* terminal event and ends.
C29_OverlappingRequestsShareFiles ==
  /\ []OverlapEffects
  /\ [][ReadsOfRemovedPaths]_vars
  /\ <>(files = <<>> \/ Ended)

\* the first file was processed and its page image removed before the
\* inference, the second file was removed before its existence check
C29_Witness ==
  /\ EndedWith("result")
  /\ outcomes = <<"processed", "missing">>
  /\ Len(extractedData) = 1
  /\ extractedData[1].pageAnalyses # <<>>
  /\ ~extractedData[1].pageAnalyses[1].success
  /\ extractedData[1].pageAnalyses[1].error = ExhaustedError(<<"Image file not found">>)
  /\ pc = "ended"

ClientTerminals == { i \in DOMAIN client.stream : client.stream[i].step \in {"result", "error"} }

\* the position of the first terminal event of the stream, 0 without one
FirstTerminal ==
  IF ClientTerminals = {} THEN 0
  ELSE CHOOSE i \in ClientTerminals : \A k \in ClientTerminals : i <= k

\* the events whose line has been delivered up to its newline
LinesDelivered == (client.pos + 1) \div 4

TerminalDelivered == FirstTerminal > 0 /\ LinesDelivered >= FirstTerminal

\* the events before the first terminal event delivered so far, in order
ProgressExpected ==
  [i \in 1..(IF TerminalDelivered THEN FirstTerminal - 1 ELSE LinesDelivered) |->
     client.stream[i]]

SettledByFirstTerminal ==
  /\ TerminalDelivered
  /\ client.phase = "stopped"
  /\ client.promise =
       [state |-> IF client.stream[FirstTerminal].step = "result" THEN "resolved" ELSE "rejected",
        from |-> "event", id |-> FirstTerminal]

\* C30 as stated: the promise settles at most once and only on a terminal
\* event, with the payload of the first result event or the message of
\* the first error event; reading stops there; the progress callback gets
\* every event before it once, in order, and nothing else; a stream that
\* closes without a terminal event leaves the promise pending.
C30_SettlesOnlyOnTerminal ==
  client.phase # "idle" =>
    /\ client.settles <= 1
    /\ client.promise # Pending => SettledByFirstTerminal
    /\ TerminalDelivered => SettledByFirstTerminal
    /\ client.progress = ProgressExpected
    /\ client.phase = "done" => client.promise = Pending /\ FirstTerminal = 0

\* C30 amended: the promise also rejects, without any terminal event, when
\* the fetch is rejected, the status is not OK or the body is missing
\* (before anything is read) and when a read is rejected (before the first
\* terminal event was delivered); everything else as stated.
C30_SettlesOnTerminalOrTransportFailure ==
  client.phase # "idle" =>
    /\ client.settles <= 1
    /\ client.settles = 1 <=> client.promise # Pending
    /\ client.promise # Pending =>
         \/ SettledByFirstTerminal
         \/ /\ client.promise.state = "rejected"
            /\ client.promise.from \in {"fetch", "status", "body"}
            /\ client.phase = "failed"
            /\ client.pos = 0
         \/ /\ client.promise.state = "rejected"
            /\ client.promise.from = "read"
            /\ client.phase = "failed"
            /\ ~TerminalDelivered
    /\ TerminalDelivered => SettledByFirstTerminal
    /\ client.progress = ProgressExpected
    /\ client.phase = "done" =>
         /\ client.promise = Pending
         /\ FirstTerminal = 0
         /\ client.pos = Len(StreamText(client.stream))

\* resolved by the second event after one progress callback, the third
\* event never read
C30_Witness ==
  /\ client.phase = "stopped"
  /\ Len(client.stream) = 3
  /\ client.stream[2].step = "result"
  /\ client.stream[3].step = "progress"
  /\ client.promise = [state |-> "resolved", from |-> "event", id |-> 2]
  /\ client.progress = <<[step |-> "progress", id |-> 1]>>
  /\ client.pos = 7

====
